---- MODULE Spec2Model ----
(***************************************************************************)
(* Model of tools/make-event-names.py: the scanner of "#define NAME VALUE"  *)
(* lines, the three emitters and the command-line driver.                   *)
(*                                                                          *)
(* Representation.  An identifier is the sequence of its "_"-separated      *)
(* words (EV_FF_STATUS is <<"EV","FF","STATUS">>), so that str.startswith   *)
(* on a prefix ending in "_" is a comparison of leading words.  A value     *)
(* token is the sequence of its characters, so that int(token, 0) is        *)
(* computed digit by digit.  A printed line is a record.                    *)
(***************************************************************************)
EXTENDS Integers, Sequences, FiniteSets, TLC

\* ---------------------------------------------------------------- bounds
MaxLines == 3
MaxArgs == 3
MaxCode == 5

\* ------------------------------------------------------- module constants
prefixes ==
  << <<"EV">>, <<"REL">>, <<"ABS">>, <<"KEY">>, <<"BTN">>, <<"LED">>,
     <<"SND">>, <<"MSC">>, <<"SW">>, <<"FF">>, <<"SYN">>, <<"REP">>,
     <<"INPUT", "PROP">>, <<"BUS">> >>

blacklist ==
  << <<"EV", "VERSION">>, <<"BTN", "MISC">>, <<"BTN", "MOUSE">>,
     <<"BTN", "JOYSTICK">>, <<"BTN", "GAMEPAD">>, <<"BTN", "DIGI">>,
     <<"BTN", "WHEEL">>, <<"BTN", "TRIGGER", "HAPPY">> >>

event_names ==
  << <<"REL">>, <<"ABS">>, <<"KEY">>, <<"BTN">>, <<"LED">>, <<"SND">>,
     <<"MSC">>, <<"SW">>, <<"FF">>, <<"SYN">>, <<"REP">> >>

\* ------------------------------------------------------------- sequences
InSeq(x, s) == \E j \in 1..Len(s) : s[j] = x

RECURSIVE Flatten(_)
Flatten(ss) == IF ss = <<>> THEN <<>> ELSE Head(ss) \o Flatten(Tail(ss))

\* ------------------------------------------------------ str.lower / upper
UpperWords ==
  <<"EV", "REL", "ABS", "KEY", "BTN", "LED", "SND", "MSC", "SW", "FF",
    "SYN", "REP", "INPUT", "PROP", "BUS">>

LowerWords ==
  <<"ev", "rel", "abs", "key", "btn", "led", "snd", "msc", "sw", "ff",
    "syn", "rep", "input", "prop", "bus">>

lower(ws) ==
  [j \in 1..Len(ws) |->
     IF InSeq(ws[j], UpperWords)
       THEN LowerWords[CHOOSE m \in 1..Len(UpperWords) : UpperWords[m] = ws[j]]
       ELSE ws[j]]

upper(ws) ==
  [j \in 1..Len(ws) |->
     IF InSeq(ws[j], LowerWords)
       THEN UpperWords[CHOOSE m \in 1..Len(LowerWords) : LowerWords[m] = ws[j]]
       ELSE ws[j]]

\* prefix[:-1].lower(): the prefix without its trailing "_", lower-cased
attrname(prefix) == lower(prefix)

\* name.startswith(prefix), the prefix ending in "_"
startswith(name, prefix) ==
  /\ Len(name) > Len(prefix)
  /\ SubSeq(name, 1, Len(prefix)) = prefix

\* ------------------------------------------------------------ int(s, 0)
ValueError == -1

DigitChars ==
  <<"0", "1", "2", "3", "4", "5", "6", "7", "8", "9",
    "a", "b", "c", "d", "e", "f">>

Letters ==
  {"a", "b", "c", "d", "e", "f", "g", "h", "i", "j", "k", "l", "m", "n", "o",
   "p", "q", "r", "s", "t", "u", "v", "w", "x", "y", "z",
   "A", "B", "C", "D", "E", "F", "G", "H", "I", "J", "K", "L", "M", "N", "O",
   "P", "Q", "R", "S", "T", "U", "V", "W", "X", "Y", "Z"}

\* \w
IsWordChar(c) == InSeq(c, DigitChars) \/ c \in Letters \/ c = "_"

DigitVal(c) == (CHOOSE m \in 1..Len(DigitChars) : DigitChars[m] = c) - 1

IsDigit(c, base) == InSeq(c, DigitChars) /\ DigitVal(c) < base

RECURSIVE Digits(_, _, _)
Digits(cs, base, acc) ==
  IF cs = <<>> THEN acc
  ELSE Digits(Tail(cs), base, acc * base + DigitVal(Head(cs)))

AllDigits(cs, base) ==
  /\ cs # <<>>
  /\ \A j \in 1..Len(cs) : IsDigit(cs[j], base)

\* Base 0: the literal's own prefix selects the base; a decimal literal with
\* a leading zero is rejected unless it is all zeros.  Tokens are drawn
\* without digit-group underscores.
int0(tok) ==
  IF Len(tok) >= 2 /\ tok[1] = "0" /\ tok[2] \in {"x", "X"}
    THEN IF AllDigits(SubSeq(tok, 3, Len(tok)), 16)
           THEN Digits(SubSeq(tok, 3, Len(tok)), 16, 0) ELSE ValueError
  ELSE IF Len(tok) >= 2 /\ tok[1] = "0" /\ tok[2] \in {"o", "O"}
    THEN IF AllDigits(SubSeq(tok, 3, Len(tok)), 8)
           THEN Digits(SubSeq(tok, 3, Len(tok)), 8, 0) ELSE ValueError
  ELSE IF Len(tok) >= 2 /\ tok[1] = "0" /\ tok[2] \in {"b", "B"}
    THEN IF AllDigits(SubSeq(tok, 3, Len(tok)), 2)
           THEN Digits(SubSeq(tok, 3, Len(tok)), 2, 0) ELSE ValueError
  ELSE IF ~AllDigits(tok, 10) THEN ValueError
  ELSE IF Len(tok) > 1 /\ tok[1] = "0" /\ \E j \in 1..Len(tok) : tok[j] # "0"
    THEN ValueError
  ELSE Digits(tok, 10, 0)

\* ------------------------------------------------------------ input lines
\* A line is its first token (kw), the identifier after it (name, <<>> when
\* there is none) and the characters of the token after that (val).
Line(kw, name, val) == [kw |-> kw, name |-> name, val |-> val]

\* (\w+): the longest leading run of word characters
RECURSIVE WordRun(_)
WordRun(cs) ==
  IF cs = <<>> \/ ~IsWordChar(Head(cs)) THEN <<>>
  ELSE <<Head(cs)>> \o WordRun(Tail(cs))

\* re.match(r"^#define\s+(\w+)\s+(\w+)", line) is not None
re_match(line) ==
  /\ line.kw = "#define"
  /\ line.name # <<>>
  /\ WordRun(line.val) # <<>>

\* ------------------------------------------------------------------ Bits
\* bits maps each attribute that has been set to an insertion-ordered
\* dictionary: a sequence of buckets [val, names].
NoBits == [a \in {} |-> <<>>]

hasattr(bits, attr) == attr \in DOMAIN bits

has_key(d, v) == \E j \in 1..Len(d) : d[j].val = v

\* variant: a later name goes to the front of its bucket
dict_add_front(d, v, name) ==
  IF has_key(d, v)
    THEN [j \in 1..Len(d) |->
            IF d[j].val = v
              THEN [val |-> v, names |-> <<name>> \o d[j].names]
              ELSE d[j]]
    ELSE Append(d, [val |-> v, names |-> <<name>>])

dict_add(d, v, name) ==
  IF has_key(d, v)
    THEN [j \in 1..Len(d) |->
            IF d[j].val = v
              THEN [val |-> v, names |-> Append(d[j].names, name)]
              ELSE d[j]]
    ELSE Append(d, [val |-> v, names |-> <<name>>])

record(bits, attr, v, name) ==
  [a \in DOMAIN bits \cup {attr} |->
     IF a = attr
       THEN dict_add(IF hasattr(bits, attr) THEN bits[attr] ELSE <<>>, v, name)
       ELSE bits[a]]

\* the loop "for prefix in prefixes" of parse_define, from position k on
RECURSIVE for_prefixes(_, _, _, _)
for_prefixes(bits, name, value, k) ==
  IF k > Len(prefixes) THEN bits
  ELSE IF ~startswith(name, prefixes[k])
    THEN for_prefixes(bits, name, value, k + 1)
  ELSE for_prefixes(record(bits, attrname(prefixes[k]), value, name),
                    name, value, k + 1)

\* variant: the exclusion list is not consulted
parse_define_no_blacklist(bits, line) ==
  IF ~re_match(line) THEN bits
  ELSE IF int0(WordRun(line.val)) = ValueError THEN bits
  ELSE for_prefixes(bits, line.name, int0(WordRun(line.val)), 1)

parse_define(bits, line) ==
  IF ~re_match(line) THEN bits
  ELSE IF InSeq(line.name, blacklist) THEN bits
  ELSE IF int0(WordRun(line.val)) = ValueError THEN bits
  ELSE for_prefixes(bits, line.name, int0(WordRun(line.val)), 1)

\* ---------------------------------------------------------- printed lines
Ln(k, e, n, o, v, w) == [k |-> k, e |-> e, n |-> n, o |-> o, v |-> v, w |-> w]

Text(s) == Ln("text", <<s>>, <<>>, <<>>, 0, 0)
\* "pub enum %s {"
EnumOpen(e) == Ln("enum", e, <<>>, <<>>, 0, 0)
\* "    %s = %s,"
Variant(n, v) == Ln("variant", <<>>, n, <<>>, v, 0)
\* "    %s,"
Plain(n) == Ln("plain", <<>>, n, <<>>, 0, 0)
\* "impl %s {"
ImplOpen(e) == Ln("impl", e, <<>>, <<>>, 0, 0)
\* "    pub const %s: %s = %s::%s;"
Const(n, e, o) == Ln("const", e, n, o, 0, 0)
\* "pub fn %s(code: u32) -> Option<%s> {"
FnOpen(n, e) == Ln("fn", e, n, <<>>, 0, 0)
\* "        %s..=%s => Some(EventType::EV_UNK),"
RangeArm(v, w) == Ln("range", <<"EventType">>, <<"EV", "UNK">>, <<>>, v, w)
\* "        %s => Some(%s::%s),"
Arm(v, e, n) == Ln("arm", e, n, <<>>, v, 0)
\* "        _ => None,"
DefaultArm == Ln("default", <<>>, <<>>, <<>>, 0, 0)
\* "    %s(%s),"
Payload(n, o) == Ln("payload", <<>>, n, o, 0, 0)
\* "    EV_UNK { event_type: u32, event_code: u32 },"
UnkStruct == Ln("unkstruct", <<>>, <<"EV", "UNK">>, <<>>, 0, 0)
\* "Usage: %s /path/to/linux/input.h"
UsageLine(prog) == Ln("usage", <<>>, <<prog>>, <<>>, 0, 0)

\* What a printing function did: the lines it printed and the exception it
\* raised ("none" when it returned).
Ok(lines) == [out |-> lines, err |-> "none"]
Raise(lines, e) == [out |-> lines, err |-> e]
Then(r, s) == IF r.err # "none" THEN r ELSE [out |-> r.out \o s.out, err |-> s.err]

EV_MAX == <<"EV", "MAX">>
EV_UNK == <<"EV", "UNK">>
EV_FF_STATUS == <<"EV", "FF", "STATUS">>
EV_FF == <<"EV", "FF">>

\* Two regex substitutions put "_" before an inner capitalised word, then
\* lower(): EventType -> event_type, EV_KEY -> ev_key.
convert(name) ==
  Flatten([j \in 1..Len(name) |->
             IF name[j] = "EventType" THEN <<"event", "type">>
             ELSE IF name[j] = "InputProp" THEN <<"input", "prop">>
             ELSE IF name[j] = "BusType" THEN <<"bus", "type">>
             ELSE lower(<<name[j]>>)])

\* the enum_name / fn_name chosen at the top of both emitters
type_name(prefix) ==
  IF prefix = <<"ev">> THEN <<"EventType">>
  ELSE IF prefix = <<"input", "prop">> THEN <<"InputProp">>
  ELSE IF prefix = <<"bus">> THEN <<"BusType">>
  ELSE <<"EV">> \o upper(prefix)

\* variant: EV_UNK goes after the bucket named EV_MAX
enum_variants_unk_after(d) ==
  Flatten([j \in 1..Len(d) |->
             <<Variant(d[j].names[1], d[j].val)>>
             \o (IF d[j].names[1] = EV_MAX THEN <<Plain(EV_UNK)>> ELSE <<>>)])

\* first loop of print_enums: EV_UNK goes before the bucket named EV_MAX
enum_variants(d) ==
  Flatten([j \in 1..Len(d) |->
             (IF d[j].names[1] = EV_MAX THEN <<Plain(EV_UNK)>> ELSE <<>>)
             \o <<Variant(d[j].names[1], d[j].val)>>])

\* second loop of print_enums (the btn buckets, printed inside EV_KEY)
btn_variants(d) == [j \in 1..Len(d) |-> Variant(d[j].names[1], d[j].val)]

\* associated_names: (names[0], names[1:]) of every bucket with aliases
associated(d) ==
  Flatten([j \in 1..Len(d) |->
             IF Len(d[j].names) > 1
               THEN << <<d[j].names[1], Tail(d[j].names)>> >> ELSE <<>>])

const_lines(assoc, enum_name) ==
  Flatten([j \in 1..Len(assoc) |->
             [m \in 1..Len(assoc[j][2]) |->
                Const(assoc[j][2][m], enum_name, assoc[j][1])]])

print_enums(bits, prefix) ==
  IF ~hasattr(bits, prefix) THEN Ok(<<>>)
  ELSE
    LET enum_name == type_name(prefix)
        head == << Text(""),
                   Text("#[allow(non_camel_case_types)]"),
                   Text("#[cfg_attr(feature = \"serde\", derive(Serialize), derive(Deserialize))]"),
                   Text("#[derive(Copy, Clone, Debug, PartialEq, Eq, Hash)]"),
                   EnumOpen(enum_name) >>
        own == enum_variants(bits[prefix])
    IN IF prefix = <<"key">> /\ ~hasattr(bits, <<"btn">>)
         THEN Raise(head \o own, "AttributeError")
       ELSE
         LET btn == IF prefix = <<"key">> THEN btn_variants(bits[<<"btn">>]) ELSE <<>>
             assoc == associated(bits[prefix])
                      \o (IF prefix = <<"key">> THEN associated(bits[<<"btn">>]) ELSE <<>>)
         IN Ok(head \o own \o btn \o <<Text("}")>>
               \o (IF Len(assoc) > 0
                     THEN <<Text(""), ImplOpen(enum_name)>>
                          \o const_lines(assoc, enum_name) \o <<Text("}")>>
                     ELSE <<>>))

\* first loop of print_enums_convert_fn from bucket k on; last_val is bound
\* only once an iteration has completed
RECURSIVE convert_arms(_, _, _, _, _)
convert_arms(d, fn_name, k, bound, last_val) ==
  IF k > Len(d) THEN Ok(<<>>)
  ELSE IF d[k].names[1] = EV_MAX /\ ~bound THEN Raise(<<>>, "UnboundLocalError")
  ELSE Then(Ok((IF d[k].names[1] = EV_MAX
                  THEN <<RangeArm(last_val + 1, d[k].val - 1)>> ELSE <<>>)
               \o <<Arm(d[k].val, fn_name, d[k].names[1])>>),
            convert_arms(d, fn_name, k + 1, TRUE, d[k].val))

\* variant: the btn buckets get no arm
btn_arms_none(d, fn_name) == <<>>

btn_arms(d, fn_name) == [j \in 1..Len(d) |-> Arm(d[j].val, fn_name, d[j].names[1])]

print_enums_convert_fn(bits, prefix) ==
  IF ~hasattr(bits, prefix) THEN Ok(<<>>)
  ELSE
    LET fn_name == type_name(prefix)
        head == << Text(""),
                   FnOpen(<<"int", "to">> \o convert(fn_name), fn_name),
                   Text("    match code {") >>
        own == Then(Ok(head), convert_arms(bits[prefix], fn_name, 1, FALSE, 0))
        btn == IF prefix # <<"key">> THEN Ok(<<>>)
               ELSE IF ~hasattr(bits, <<"btn">>) THEN Raise(<<>>, "AttributeError")
               ELSE Ok(btn_arms(bits[<<"btn">>], fn_name))
    IN Then(Then(own, btn), Ok(<<DefaultArm, Text("    }"), Text("}")>>))

\* name[3:] of a name of the ev group, which starts with the 3 characters
\* "EV_"; name[3:] + "_" is in event_names when these words are in it
slice3(name) == Tail(name)

\* loop of print_event_code from bucket k on; "[name]" unpacks a list of
\* exactly one element
RECURSIVE event_code_variants(_, _)
event_code_variants(d, k) ==
  IF k > Len(d) THEN Ok(<<>>)
  ELSE IF Len(d[k].names) # 1 THEN Raise(<<>>, "ValueError")
  ELSE
    LET name == d[k].names[1]
        here == IF InSeq(slice3(name), event_names) THEN <<Payload(name, name)>>
                ELSE IF name = EV_FF_STATUS THEN <<Payload(EV_FF_STATUS, EV_FF)>>
                ELSE (IF name = EV_MAX THEN <<UnkStruct>> ELSE <<>>) \o <<Plain(name)>>
    IN Then(Ok(here), event_code_variants(d, k + 1))

btn_codes(d) ==
  Flatten([j \in 1..Len(d) |->
             [m \in 1..Len(d[j].names) |-> Variant(d[j].names[m], d[j].val)]])

print_event_code(bits, prefix) ==
  IF ~hasattr(bits, prefix) THEN Ok(<<>>)
  ELSE
    LET head == << Text(""),
                   Text("#[allow(non_camel_case_types)]"),
                   Text("#[cfg_attr(feature = \"serde\", derive(Serialize), derive(Deserialize))]"),
                   Text("#[derive(Copy, Clone, Debug, PartialEq, Eq, Hash)]"),
                   EnumOpen(<<"EventCode">>) >>
        btn == IF prefix # <<"key">> THEN Ok(<<>>)
               ELSE IF ~hasattr(bits, <<"btn">>) THEN Raise(<<>>, "AttributeError")
               ELSE Ok(btn_codes(bits[<<"btn">>]))
    IN Then(Then(Then(Ok(head), event_code_variants(bits[prefix], 1)), btn),
            Ok(<<Text("}")>>))

\* loop of print_mapping_table from prefix k on
RECURSIVE mapping_table_from(_, _)
mapping_table_from(bits, k) ==
  IF k > Len(prefixes) THEN Ok(<<>>)
  ELSE IF prefixes[k] = <<"BTN">> THEN mapping_table_from(bits, k + 1)
  ELSE Then(Then(Then(print_enums(bits, attrname(prefixes[k])),
                      print_enums_convert_fn(bits, attrname(prefixes[k]))),
                 IF prefixes[k] = <<"EV">>
                   THEN print_event_code(bits, attrname(prefixes[k]))
                   ELSE Ok(<<>>)),
            mapping_table_from(bits, k + 1))

print_mapping_table(bits) == mapping_table_from(bits, 1)

\* ------------------------------------------------------------ environment
Paths == {"a", "b", "c"}

Def(name, val) == Line("#define", name, val)

\* lines of a header, by what the scanner does with them
Recorded ==
  { Def(<<"EV", "SYN">>, <<"0">>),
    Def(<<"EV", "KEY">>, <<"0", "x", "1">>),
    Def(<<"EV", "MAX">>, <<"3">>),
    Def(<<"EV", "MAX">>, <<"1">>),
    Def(<<"EV", "FF", "STATUS">>, <<"4">>),
    Def(<<"KEY", "A">>, <<"1">>),
    Def(<<"KEY", "B">>, <<"0", "x", "1">>),
    Def(<<"BTN", "0">>, <<"1">>) }

Skipped ==
  { Def(<<"EV", "VERSION">>, <<"0", "x", "1">>),
    Def(<<"KEY", "MIN">>, <<"K", "E", "Y", "_", "A">>),
    Def(<<"INPUT", "X">>, <<"1">>),
    Line("struct", <<"input", "event">>, <<"{">>) }

SeqsUpTo(S, n) == UNION {[1..m -> S] : m \in 0..n}

File(lines) == [readable |-> TRUE, lines |-> lines]
Unreadable == [readable |-> FALSE, lines |-> <<>>]

\* every header of at most MaxLines lines
ScanFiles == {File(ls) : ls \in SeqsUpTo(Recorded \cup Skipped, MaxLines)}

\* a few whole headers for runs over several paths
HeaderFiles ==
  { File(<< Def(<<"EV", "SYN">>, <<"0">>), Def(<<"EV", "KEY">>, <<"0", "x", "1">>),
            Def(<<"EV", "MAX">>, <<"3">>) >>),
    File(<< Def(<<"KEY", "A">>, <<"1">>), Def(<<"BTN", "0">>, <<"1">>) >>),
    File(<< Def(<<"KEY", "A">>, <<"1">>) >>) }

\* ---------------------------------------------------------------- state
VARIABLES argv, fs, pc, k, fp, ln, bits, out, status, err, opened

vars == <<argv, fs, pc, k, fp, ln, bits, out, status, err, opened>>

Running == -1

\* sys.argv[j]
sys_argv(j) == argv[j + 1]

\* variant: every index from 1 to len(sys.argv) - 1
indices_all == [j \in 1..(Len(argv) - 1) |-> j]

\* the tuple "(1, len(sys.argv) - 1)" of the final loop; the single-path
\* branch reads sys.argv[1] only
indices == IF Len(argv) = 2 THEN <<1>> ELSE <<1, Len(argv) - 1>>

Start(args, files) ==
  /\ argv = <<"prog">> \o args
  /\ fs = files
  /\ pc = "main"
  /\ k = 1
  /\ fp = <<>>
  /\ ln = 1
  /\ bits = NoBits
  /\ out = <<>>
  /\ status = Running
  /\ err = "none"
  /\ opened = <<>>

Init ==
  \E args \in SeqsUpTo(Paths, MaxArgs) :
    \E files \in [Paths -> HeaderFiles \cup {Unreadable}] : Start(args, files)

InitScan ==
  \/ Start(<<>>, [p \in {"a"} |-> Unreadable])
  \/ \E f \in ScanFiles \cup {Unreadable} : Start(<<"a">>, [p \in {"a"} |-> f])

\* ---------------------------------------------------------------- actions
\* len(sys.argv) < 2
Usage ==
  /\ pc = "main"
  /\ Len(argv) < 2
  /\ out' = out \o <<UsageLine(sys_argv(0))>>
  /\ status' = 2
  /\ pc' = "exit"
  /\ UNCHANGED <<argv, fs, k, fp, ln, bits, err, opened>>

Header ==
  /\ pc = "main"
  /\ Len(argv) >= 2
  /\ out' = out \o << Text("/* THIS FILE IS GENERATED, DO NOT EDIT */"), Text(""),
                      Text("#[cfg(feature = \"serde\")]"),
                      Text("use serde::{Deserialize, Serialize};") >>
  /\ pc' = "open"
  /\ UNCHANGED <<argv, fs, k, fp, ln, bits, status, err, opened>>

\* variant: parse goes on with the Bits of the file before
Open_keep_bits ==
  /\ pc = "open"
  /\ LET path == sys_argv(indices[k]) IN
       /\ opened' = Append(opened, path)
       /\ IF fs[path].readable
            THEN /\ bits' = bits
                 /\ fp' = fs[path].lines
                 /\ ln' = 1
                 /\ pc' = "parse"
                 /\ UNCHANGED <<status, err>>
            ELSE /\ err' = "OSError"
                 /\ status' = 1
                 /\ pc' = "exit"
                 /\ UNCHANGED <<bits, fp, ln>>
  /\ UNCHANGED <<argv, fs, k, out>>

\* open(sys.argv[i]) and the start of parse(f): bits = Bits(), readlines()
Open ==
  /\ pc = "open"
  /\ LET path == sys_argv(indices[k]) IN
       /\ opened' = Append(opened, path)
       /\ IF fs[path].readable
            THEN /\ bits' = NoBits
                 /\ fp' = fs[path].lines
                 /\ ln' = 1
                 /\ pc' = "parse"
                 /\ UNCHANGED <<status, err>>
            ELSE /\ err' = "OSError"
                 /\ status' = 1
                 /\ pc' = "exit"
                 /\ UNCHANGED <<bits, fp, ln>>
  /\ UNCHANGED <<argv, fs, k, out>>

\* one iteration of "for line in lines"
ParseLine ==
  /\ pc = "parse"
  /\ ln <= Len(fp)
  /\ bits' = IF fp[ln].kw # "#define" THEN bits ELSE parse_define(bits, fp[ln])
  /\ ln' = ln + 1
  /\ UNCHANGED <<argv, fs, pc, k, fp, out, status, err, opened>>

\* parse returns; print_mapping_table(bits); then sys.exit(2), the next
\* index, or the end of the script
PrintMappingTable ==
  /\ pc = "parse"
  /\ ln > Len(fp)
  /\ LET r == print_mapping_table(bits) IN
       /\ out' = out \o r.out
       /\ IF r.err # "none"
            THEN err' = r.err /\ status' = 1 /\ pc' = "exit" /\ k' = k
          ELSE IF Len(argv) = 2
            THEN err' = err /\ status' = 2 /\ pc' = "exit" /\ k' = k
          ELSE IF k < Len(indices)
            THEN err' = err /\ status' = status /\ pc' = "open" /\ k' = k + 1
          ELSE err' = err /\ status' = 0 /\ pc' = "exit" /\ k' = k
  /\ UNCHANGED <<argv, fs, fp, ln, bits, opened>>

Next == Usage \/ Header \/ Open \/ ParseLine \/ PrintMappingTable

Spec == Init /\ [][Next]_vars

SpecScan == InitScan /\ [][Next]_vars

\* ------------------------------------------------- reading input and output
\* the attribute of each prefix, and the attributes there can be
attrs == [j \in 1..Len(prefixes) |-> attrname(prefixes[j])]

Attrs == {attrs[j] : j \in 1..Len(prefixes)}

\* the lines of the open file that the loop of parse has gone through
Scanned == SubSeq(fp, 1, ln - 1)

ValueOf(line) == int0(WordRun(line.val))

\* line is a macro that the scanner keeps when its prefix is recognized
Kept(line) ==
  /\ line.kw = "#define"
  /\ re_match(line)
  /\ ~InSeq(line.name, blacklist)
  /\ ValueOf(line) # ValueError

\* line is a macro with this prefix that the scanner keeps
Accepts(prefix, line) == startswith(line.name, prefix) /\ Kept(line)

Rejected(line) ==
  \/ line.kw # "#define"
  \/ InSeq(line.name, blacklist)
  \/ ValueOf(line) = ValueError
  \/ \A j \in 1..Len(prefixes) : ~startswith(line.name, prefixes[j])

AcceptedOf(lines, prefix) == SelectSeq(lines, LAMBDA l : Accepts(prefix, l))

AcceptedNames(lines) ==
  {lines[j].name :
     j \in {m \in 1..Len(lines) :
              \E p \in 1..Len(prefixes) : Accepts(prefixes[p], lines[m])}}

NamesOfDict(d) ==
  UNION {{d[j].names[m] : m \in 1..Len(d[j].names)} : j \in 1..Len(d)}

NamesIn(b) == UNION {NamesOfDict(b[a]) : a \in DOMAIN b}

RECURSIVE NameCount(_)
NameCount(d) == IF d = <<>> THEN 0 ELSE Len(Head(d).names) + NameCount(Tail(d))

Dict(b, a) == IF a \in DOMAIN b THEN b[a] ELSE <<>>

Openers == {"enum", "impl", "fn"}

\* the line that opens the block line i of o stands in (0: none)
LastOpener(o, i) ==
  LET S == {j \in 1..i : o[j].k \in Openers}
  IN IF S = {} THEN 0 ELSE CHOOSE j \in S : \A m \in S : m <= j

\* the lines of kind lk inside the blocks of o opened by "kind e"
Block(o, kind, e, lk) ==
  {i \in 1..Len(o) :
     /\ o[i].k \in lk
     /\ LastOpener(o, i) > 0
     /\ o[LastOpener(o, i)].k = kind
     /\ o[LastOpener(o, i)].e = e}

Emitted(o, kind, e) == \E i \in 1..Len(o) : o[i].k = kind /\ o[i].e = e

\* ------------------------------------------------------------------ claims

\* C2: a run aborts only when an input file is unreadable; for every
\* readable input the scan and the emission run to completion.
C2_AbortOnlyWhenUnreadable ==
  pc = "exit" /\ status = 1 => err = "OSError"

\* C4: in every group every bucket holds at least one name, its names are
\* the names of the accepted lines of the group with that value, in input
\* order (so the first is the first accepted one), and the buckets stand in
\* the order of the first occurrence of their values.
C4_BucketsFollowInput ==
  \A p \in 1..Len(prefixes) :
    LET a == attrs[p]
        d == Dict(bits, a)
        acc == AcceptedOf(Scanned, prefixes[p])
        FirstAt(v) == CHOOSE j \in 1..Len(acc) :
                        /\ ValueOf(acc[j]) = v
                        /\ \A m \in 1..(j - 1) : ValueOf(acc[m]) # v
    IN /\ (a \in DOMAIN bits) = (acc # <<>>)
       /\ \A m \in 1..Len(acc) : has_key(d, ValueOf(acc[m]))
       /\ \A j \in 1..Len(d) :
            LET same == SelectSeq(acc, LAMBDA l : ValueOf(l) = d[j].val)
            IN /\ Len(d[j].names) >= 1
               /\ d[j].names = [m \in 1..Len(same) |-> same[m].name]
       /\ \A i, j \in 1..Len(d) :
            i < j => FirstAt(d[i].val) < FirstAt(d[j].val)

\* a scan that ended with a group of two buckets, one of them with an alias
C4_Witness ==
  /\ pc = "parse"
  /\ ln > Len(fp)
  /\ \E a \in DOMAIN bits :
       /\ Len(bits[a]) >= 2
       /\ \E j \in 1..Len(bits[a]) : Len(bits[a][j].names) >= 2

\* C5: a step of the scan over an accepted macro adds its name to one bucket
\* of exactly one group; over a line that is no #define line, is excluded,
\* has no integer value or no recognized prefix, it changes nothing.
C5_OneGroupOrNothing ==
  [][ParseLine =>
       IF Rejected(fp[ln]) THEN bits' = bits
       ELSE \E p \in 1..Len(prefixes) : LET a == attrs[p] IN
              /\ startswith(fp[ln].name, prefixes[p])
              /\ \A a2 \in Attrs \ {a} : Dict(bits', a2) = Dict(bits, a2)
              /\ DOMAIN bits' = DOMAIN bits \cup {a}
              /\ NameCount(Dict(bits', a)) = NameCount(Dict(bits, a)) + 1
              /\ \E j \in 1..Len(bits'[a]) :
                   /\ bits'[a][j].val = ValueOf(fp[ln])
                   /\ bits'[a][j].names[Len(bits'[a][j].names)] = fp[ln].name
                   /\ \A m \in 1..Len(bits'[a]) :
                        m # j => m <= Len(Dict(bits, a)) /\ bits'[a][m] = bits[a][m]
  ]_vars

\* the scan has gone over a kept macro and over a dropped line
C5_Witness ==
  /\ pc = "parse"
  /\ bits # NoBits
  /\ \E j \in 1..Len(Scanned) : Rejected(Scanned[j])
  /\ \E j \in 1..Len(Scanned) : Scanned[j].kw = "#define" /\ InSeq(Scanned[j].name, blacklist)

IsPrefix(s, t) == Len(s) <= Len(t) /\ SubSeq(t, 1, Len(s)) = s

\* the first and the last path argument
FirstLast ==
  IF Len(argv) = 1 THEN <<>>
  ELSE IF Len(argv) = 2 THEN <<argv[2]>>
  ELSE <<argv[2], argv[Len(argv)]>>

Banner == Text("/* THIS FILE IS GENERATED, DO NOT EDIT */")

\* C1 as stated: the outcome depends on the number of paths only: none,
\* usage and status 2; one, its output and status 2; two or more, the first
\* and the last are opened, in that order, and the status is 0.
C1_OutcomeByPathCount ==
  pc = "exit" =>
    /\ Len(argv) = 1 => status = 2 /\ out = <<UsageLine(argv[1])>> /\ opened = <<>>
    /\ Len(argv) = 2 => status = 2 /\ opened = FirstLast /\ out # <<>> /\ out[1] = Banner
    /\ Len(argv) >= 3 => status = 0 /\ opened = FirstLast

\* C1 as amended: the outcome depends on the number of paths and on whether
\* the processing of an opened file aborts.  No path but the first and then
\* the last is ever opened; without an abort the statuses are 2, 2 and 0 as
\* stated; an abort (an unreadable file, an exception while printing) ends
\* the run with status 1 before any later path is opened.
C1_OutcomeByPathCountAndAbort ==
  /\ IsPrefix(opened, FirstLast)
  /\ pc = "exit" =>
       /\ (status = 1) = (err # "none")
       /\ status \in {0, 1, 2}
       /\ Len(argv) = 1 => status = 2 /\ out = <<UsageLine(argv[1])>> /\ opened = <<>>
       /\ Len(argv) = 2 /\ err = "none" =>
            status = 2 /\ opened = FirstLast /\ out # <<>> /\ out[1] = Banner
       /\ Len(argv) >= 3 /\ err = "none" => status = 0 /\ opened = FirstLast
       /\ err # "none" =>
            /\ opened # <<>>
            /\ (err = "OSError") = ~fs[opened[Len(opened)]].readable
  /\ Len(opened) = 2 => fs[opened[1]].readable

\* a run over three paths ended with status 0 though the middle one, another
\* file than the first and the last, cannot be read
C1_Witness ==
  /\ pc = "exit"
  /\ Len(argv) = 4
  /\ status = 0
  /\ argv[3] \notin {argv[2], argv[4]}
  /\ ~fs[argv[3]].readable

\* C3 as stated: the buckets are shared by the files of a run: once the
\* second file is scanned they hold the names recorded from the first too.
C3_BucketsSharedAcrossFiles ==
  (pc = "parse" /\ ln > Len(fp) /\ k = 2) =>
    AcceptedNames(fs[sys_argv(indices[1])].lines) \subseteq NamesIn(bits)

\* C3 as amended: the buckets are made afresh for every file: when a file
\* has been scanned they hold the names recorded from that file and no
\* other, and the output printed for it names macros of that file only.
C3_BucketsPerFile ==
  [][PrintMappingTable =>
       /\ NamesIn(bits) = AcceptedNames(fs[sys_argv(indices[k])].lines)
       /\ \A i \in (Len(out) + 1)..Len(out') :
            (out'[i].k # "fn" /\ out'[i].n # <<>>) =>
              out'[i].n \in AcceptedNames(fs[sys_argv(indices[k])].lines) \cup {EV_UNK}
  ]_vars

\* both files of a run were processed, the first with macros the last lacks
C3_Witness ==
  /\ pc = "exit"
  /\ status = 0
  /\ Len(opened) = 2
  /\ ~(AcceptedNames(fs[opened[1]].lines) \subseteq AcceptedNames(fs[opened[2]].lines))

\* C6 as stated, on the runs that complete: every enumeration (EV_KEY with
\* the btn buckets merged in) has one discriminant per distinct value, no
\* value being the discriminant of two variants, and one constant per alias.
C6_OneDiscriminantPerValue ==
  (pc = "exit" /\ err = "none") =>
    \A a \in DOMAIN bits \ {<<"btn">>} :
      LET merged == bits[a] \o (IF a = <<"key">> THEN Dict(bits, <<"btn">>) ELSE <<>>)
          vals == {merged[j].val : j \in 1..Len(merged)}
          vs == Block(out, "enum", type_name(a), {"variant"})
      IN /\ \A i, j \in vs : i # j => out[i].v # out[j].v
         /\ {out[i].v : i \in vs} = vals
         /\ Cardinality(Block(out, "impl", type_name(a), {"const"}))
              = NameCount(merged) - Len(merged)

MaxVal(d) == CHOOSE v \in {d[j].val : j \in 1..Len(d)} : \A j \in 1..Len(d) : d[j].val <= v

Canonical(d, v) == d[CHOOSE j \in 1..Len(d) : d[j].val = v].names[1]

UnkAt(o) == {i \in Block(o, "enum", <<"EventType">>, {"plain"}) : o[i].n = EV_UNK}

\* C7 as stated: with a non-empty ev group EventType has EV_UNK exactly
\* once, right before the variant of the bucket of the highest value.
C7_UnknownBeforeMaximum ==
  (pc = "exit" /\ hasattr(bits, <<"ev">>)) =>
    /\ Cardinality(UnkAt(out)) = 1
    /\ \A i \in UnkAt(out) :
         /\ i < Len(out)
         /\ out[i + 1] = Variant(Canonical(bits[<<"ev">>], MaxVal(bits[<<"ev">>])),
                                 MaxVal(bits[<<"ev">>]))

\* C7 as amended: EventType has EV_UNK once for each bucket whose first
\* name is EV_MAX, right before that bucket's variant, and nowhere else:
\* not at all when no bucket is named EV_MAX, and before EV_MAX whether or
\* not EV_MAX holds the highest value.
C7_UnknownBeforeEV_MAX ==
  (pc = "exit" /\ hasattr(bits, <<"ev">>)) =>
    LET d == bits[<<"ev">>]
        named == {j \in 1..Len(d) : d[j].names[1] = EV_MAX}
        maxAt == {i \in Block(out, "enum", <<"EventType">>, {"variant"}) : out[i].n = EV_MAX}
    IN /\ Cardinality(UnkAt(out)) = Cardinality(named)
       /\ \A i \in UnkAt(out) : i + 1 \in maxAt
       /\ \A i \in maxAt : i - 1 \in UnkAt(out)

\* EV_UNK was printed for an EV_MAX that does not hold the highest value
C7_Witness ==
  /\ pc = "exit"
  /\ hasattr(bits, <<"ev">>)
  /\ UnkAt(out) # {}
  /\ Canonical(bits[<<"ev">>], MaxVal(bits[<<"ev">>])) # EV_MAX

None == <<>>

\* the printed function "kind e" applied to code c, the first arm that
\* matches deciding
Eval(o, e, c) ==
  LET hit == {i \in Block(o, "fn", e, {"arm", "range", "default"}) :
                \/ o[i].k = "arm" /\ o[i].v = c
                \/ o[i].k = "range" /\ o[i].v <= c /\ c <= o[i].w
                \/ o[i].k = "default"}
  IN IF hit = {} THEN None
     ELSE LET i == CHOOSE m \in hit : \A n \in hit : m <= n
          IN IF o[i].k = "default" THEN None ELSE o[i].n

\* C8 as stated, for a function printed in full and the highest value being
\* EV_MAX's: between the second-highest and the highest value the function
\* returns EV_UNK, for a known value its canonical variant, above the highest
\* and below the lowest nothing; no range covers the highest value and the
\* default arm is last; whatever the order of the macros.
C8_ConversionByValue ==
  (/\ pc = "exit"
   /\ hasattr(bits, <<"ev">>)
   /\ Block(out, "fn", <<"EventType">>, {"default"}) # {}
   /\ Canonical(bits[<<"ev">>], MaxVal(bits[<<"ev">>])) = EV_MAX) =>
    LET d == bits[<<"ev">>]
        e == <<"EventType">>
        vals == {d[j].val : j \in 1..Len(d)}
        hi == MaxVal(d)
        rest == vals \ {hi}
        arms == Block(out, "fn", e, {"arm", "range", "default"})
    IN /\ \A c \in 0..MaxCode :
            /\ (rest # {} /\ c < hi /\ \A v \in rest : v < c) => Eval(out, e, c) = EV_UNK
            /\ c = hi => Eval(out, e, c) = Canonical(d, hi)
            /\ c \in rest => Eval(out, e, c) = Canonical(d, c)
            /\ (c > hi \/ \A v \in vals : c < v) => Eval(out, e, c) = None
       /\ \A i \in Block(out, "fn", e, {"range"}) : ~(out[i].v <= hi /\ hi <= out[i].w)
       /\ \A i \in arms : (out[i].k = "default") = (\A m \in arms : m <= i)

EnumNames(o, e) == {o[i].n : i \in Block(o, "enum", e, {"variant", "plain"})}

AliasNames(o, e) == {o[i].n : i \in Block(o, "impl", e, {"const"})}

ArmNames(o, e) == {o[i].n : i \in Block(o, "fn", e, {"arm", "range"})}

C10_EventCodeVariants ==
  (pc = "exit" /\ Emitted(out, "enum", <<"EventCode">>)) =>
    LET d == bits[<<"ev">>]
        others == {prefixes[j] : j \in 1..Len(prefixes)} \ {<<"EV">>}
        at == Block(out, "enum", <<"EventCode">>, {"payload", "plain"})
    IN /\ \A n \in NamesOfDict(d) :
            \E i \in at :
              /\ out[i].n = n
              /\ (out[i].k = "payload") = (Tail(n) \in others \/ n = EV_FF_STATUS)
              /\ n = EV_FF_STATUS => out[i].o = EV_FF
              /\ (n # EV_FF_STATUS /\ out[i].k = "payload") => out[i].o = n
       /\ (\E j \in 1..Len(d) : d[j].names[1] = EV_MAX) =>
            \E i \in at : out[i] = Plain(EV_MAX) /\ out[i - 1] = UnkStruct

====
